---- MODULE Spec2Model ----
(***************************************************************************)
(* A model of lambda_csv_processing.py: one run of the pipeline            *)
(*   extract_data -> clean_data -> load_processed_data.                    *)
(* A Python str is a sequence of one-character strings, so that split,     *)
(* replace, strip, isnumeric and "+" are computed as Python computes them. *)
(* A Python list is a sequence; a DataFrame is a record of its column      *)
(* names and its rows.  None (a cell pandas pads a short row with) is the  *)
(* one-element sequence NoneVal.                                           *)
(***************************************************************************)
EXTENDS Integers, Sequences, FiniteSets, TLC

VARIABLES
    pc,                     \* position of the run in __main__ / clean_data
    source_bucket,          \* the object "employee2.csv": its lines, or Missing
    raw_data,               \* __main__.raw_data: the lines extract_data returned
    data_rows,              \* clean_data.data of line 90: the list of rows
    data_income_extracted,  \* clean_data: the rows after extract_income
    data,                   \* clean_data.data from line 92 on: the DataFrame
    dest_bucket,            \* the uploads made to "bucket-2024-v4", in order
    error,                  \* the exception that ended the run, or "none"
    steps                   \* the steps completed so far, in order

vars == <<pc, source_bucket, raw_data, data_rows, data_income_extracted, data, dest_bucket, error, steps>>

-----------------------------------------------------------------------------
(* Python str operations                                                   *)

NoneVal == <<"None">>

Whitespace == {" ", "\n", "\r", "\t"}

Digits == {"0", "1", "2", "3", "4", "5", "6", "7", "8", "9"}

\* s.startswith(p)
startswith(s, p) == Len(s) >= Len(p) /\ SubSeq(s, 1, Len(p)) = p

\* s.endswith(p)
endswith(s, p) == Len(s) >= Len(p) /\ SubSeq(s, Len(s) - Len(p) + 1, Len(s)) = p

RECURSIVE replace(_, _, _)
\* s.replace(old, new) for a non-empty old: leftmost, non-overlapping matches,
\* scanning resumes after each replaced match
replace(s, old, new) ==
    IF s = <<>> THEN <<>>
    ELSE IF startswith(s, old)
         THEN new \o replace(SubSeq(s, Len(old) + 1, Len(s)), old, new)
         ELSE <<Head(s)>> \o replace(Tail(s), old, new)

RECURSIVE lstrip(_)
lstrip(s) == IF s # <<>> /\ Head(s) \in Whitespace THEN lstrip(Tail(s)) ELSE s

RECURSIVE rstrip(_)
rstrip(s) ==
    IF s # <<>> /\ s[Len(s)] \in Whitespace THEN rstrip(SubSeq(s, 1, Len(s) - 1)) ELSE s

\* s.strip()
strip(s) == rstrip(lstrip(s))

\* s.isnumeric(): at least one character and every character a digit
isnumeric(s) == s # <<>> /\ \A i \in 1..Len(s) : s[i] \in Digits

\* sub in s, for strings
contains(s, sub) ==
    \E i \in 1..(Len(s) + 1) : i + Len(sub) - 1 <= Len(s) /\ SubSeq(s, i, i + Len(sub) - 1) = sub

RECURSIVE split(_, _)
\* s.split(sep) for a one-character sep: always at least one part
split(s, sep) ==
    IF \A i \in 1..Len(s) : s[i] # sep THEN <<s>>
    ELSE LET k == CHOOSE i \in 1..Len(s) : s[i] = sep /\ \A j \in 1..(i - 1) : s[j] # sep
         IN  <<SubSeq(s, 1, k - 1)>> \o split(SubSeq(s, k + 1, Len(s)), sep)

RECURSIVE join(_, _)
\* sep.join(parts)
join(parts, sep) ==
    IF parts = <<>> THEN <<>>
    ELSE IF Len(parts) = 1 THEN parts[1]
    ELSE parts[1] \o sep \o join(Tail(parts), sep)

Lowers == <<"a", "b", "c", "d", "e", "f", "g", "h", "i", "j", "k", "l", "m",
            "n", "o", "p", "q", "r", "s", "t", "u", "v", "w", "x", "y", "z">>

Uppers == <<"A", "B", "C", "D", "E", "F", "G", "H", "I", "J", "K", "L", "M",
            "N", "O", "P", "Q", "R", "S", "T", "U", "V", "W", "X", "Y", "Z">>

isalpha(c) == \E i \in 1..Len(Lowers) : c = Lowers[i] \/ c = Uppers[i]

upper(c) ==
    IF \E i \in 1..Len(Lowers) : c = Lowers[i]
    THEN Uppers[CHOOSE i \in 1..Len(Lowers) : c = Lowers[i]] ELSE c

lower(c) ==
    IF \E i \in 1..Len(Uppers) : c = Uppers[i]
    THEN Lowers[CHOOSE i \in 1..Len(Uppers) : c = Uppers[i]] ELSE c

\* s.title(): a letter that follows a non-letter (or starts s) is upper-cased,
\* every other letter lower-cased
title(s) ==
    [i \in 1..Len(s) |->
        IF i = 1 \/ ~isalpha(s[i - 1]) THEN upper(s[i]) ELSE lower(s[i])]

-----------------------------------------------------------------------------
(* Results of a call that may raise                                        *)

Ok(v) == [error |-> "none", value |-> v]

Raise(e) == [error |-> e, value |-> <<>>]

-----------------------------------------------------------------------------
(* clean_data.extract_income                                               *)

\* del row[i] (i counted from 1 here)
DelAt(row, i) == SubSeq(row, 1, i - 1) \o SubSeq(row, i + 1, Len(row))

\* extract_income's loop body with "del row[6]" left out
extract_income_row_no_del(row) ==
    IF Len(row) < 5 THEN Raise("IndexError")
    ELSE IF ~isnumeric(strip(replace(row[5], <<"$">>, <<>>))) THEN Ok(row)
    ELSE IF Len(row) < 6 THEN Raise("IndexError")
    ELSE IF ~isnumeric(strip(row[6])) THEN Ok(row)
    ELSE IF Len(row) < 7 THEN Raise("IndexError")
    ELSE Ok([row EXCEPT ![5] = row[5] \o row[6], ![6] = row[7]])

\* extract_income's loop body with "or" in place of "and" in its condition
extract_income_row_or(row) ==
    IF Len(row) < 5 THEN Raise("IndexError")
    ELSE IF ~isnumeric(strip(replace(row[5], <<"$">>, <<>>))) /\ Len(row) < 6
    THEN Raise("IndexError")
    ELSE IF /\ ~isnumeric(strip(replace(row[5], <<"$">>, <<>>)))
            /\ ~isnumeric(strip(row[6])) THEN Ok(row)
    ELSE IF Len(row) < 7 THEN Raise("IndexError")
    ELSE Ok(DelAt([row EXCEPT ![5] = row[5] \o row[6], ![6] = row[7]], 7))

\* The body of "for row in data" for one row.  row[4], row[5], row[6] of the
\* source are row[5], row[6], row[7] here; an index past the end raises
\* IndexError, and "and" evaluates row[5] only when the left operand is true.
extract_income_row(row) ==
    IF Len(row) < 5 THEN Raise("IndexError")
    ELSE IF ~isnumeric(strip(replace(row[5], <<"$">>, <<>>))) THEN Ok(row)
    ELSE IF Len(row) < 6 THEN Raise("IndexError")
    ELSE IF ~isnumeric(strip(row[6])) THEN Ok(row)
    ELSE IF Len(row) < 7 THEN Raise("IndexError")
    ELSE Ok(DelAt([row EXCEPT ![5] = row[5] \o row[6], ![6] = row[7]], 7))

RECURSIVE extract_income(_)
\* The rows in order, the header row included; the first IndexError ends the call.
extract_income(rows) ==
    IF rows = <<>> THEN Ok(<<>>)
    ELSE LET r == extract_income_row(Head(rows))
         IN  IF r.error # "none" THEN Raise(r.error)
             ELSE LET rest == extract_income(Tail(rows))
                  IN  IF rest.error # "none" THEN Raise(rest.error)
                      ELSE Ok(<<r.value>> \o rest.value)

-----------------------------------------------------------------------------
(* pandas: DataFrame construction, column lookup and assignment            *)

MaxOf(S) == CHOOSE m \in S : \A x \in S : x <= m

\* pd.DataFrame(rows[1:], columns=rows[0]): rows[0] of an empty list raises
\* IndexError; the data rows are padded with None to the longest of them, and
\* a width other than the number of column names raises ValueError.
DataFrame(rows) ==
    IF rows = <<>> THEN Raise("IndexError")
    ELSE LET columns == rows[1]
             body == Tail(rows)
             width == IF body = <<>> THEN Len(columns)
                      ELSE MaxOf({Len(body[i]) : i \in 1..Len(body)})
         IN  IF width # Len(columns) THEN Raise("ValueError")
             ELSE Ok([columns |-> columns,
                      rows |-> [i \in 1..Len(body) |->
                                  [j \in 1..width |->
                                      IF j <= Len(body[i]) THEN body[i][j] ELSE NoneVal]]])

HasColumn(df, name) == \E j \in 1..Len(df.columns) : df.columns[j] = name

ColumnIndex(df, name) == CHOOSE j \in 1..Len(df.columns) : df.columns[j] = name

\* data[name], for a name that is a column
Column(df, name) == [i \in 1..Len(df.rows) |-> df.rows[i][ColumnIndex(df, name)]]

\* data[name] = values, for a name that is a column
SetColumn(df, name, values) ==
    [df EXCEPT !.rows = [i \in 1..Len(df.rows) |->
                            [df.rows[i] EXCEPT ![ColumnIndex(df, name)] = values[i]]]]

-----------------------------------------------------------------------------
(* Column names and literals of clean_data                                 *)

NameCol == <<"N", "a", "m", "e">>

EmailCol == <<"E", "m", "a", "i", "l">>

DateCol == <<"D", "a", "t", "e", " ", "o", "f", " ", "B", "i", "r", "t", "h">>

AgeCol == <<"A", "g", "e">>

IncomeCol == <<"I", "n", "c", "o", "m", "e">>

CountryCol == <<"C", "o", "u", "n", "t", "r", "y">>

CountryColLF == <<"C", "o", "u", "n", "t", "r", "y", "\n">>

CountryColCRLF == <<"C", "o", "u", "n", "t", "r", "y", "\r", "\n">>

USA == <<"U", "S", "A">>

unknown == <<"u", "n", "k", "n", "o", "w", "n">>

com == <<"c", "o", "m">>

\* the keys of country_usa_map (every value is "USA")
country_usa_map ==
    {<<"U", "n", "i", "t", "e", "d", " ", "S", "t", "a", "t", "e", "s">>,
     <<"u", "s">>,
     <<" ", "U", ".", "S", ".">>,
     <<"u", "s", "a">>,
     <<"U", "n", "i", "t", "e", "d", " ", "S", "t", "a", "t", "e", "s", " ", "o", "f", " ", "A", "m", "e", "r", "i", "c", "a">>,
     <<"U", "n", "i", "t", "e", "d", " ", "s", "t", "a", "t", "e", "s">>,
     <<"U", "n", "i", "t", "e", "d", " ", "S", "t", "a", "e", "s">>,
     <<"U", "S">>}

\* the keys of country_usa_map2 (every value is "USA")
country_usa_map2 ==
    {<<"U", "S", "A", "\r">>,
     <<"U", "n", "i", "t", "e", "d", " ", "S", "t", "a", "t", "e", "s", "\r">>,
     <<"u", "s", "\r">>,
     <<" ", "U", ".", "S", ".", "\r">>,
     <<"u", "s", "a", "\r">>,
     <<"U", "n", "i", "t", "e", "d", " ", "S", "t", "a", "t", "e", "s", " ", "o", "f", " ", "A", "m", "e", "r", "i", "c", "a", "\r">>,
     <<"U", "n", "i", "t", "e", "d", " ", "s", "t", "a", "t", "e", "s", "\r">>,
     <<"U", "n", "i", "t", "e", "d", " ", "S", "t", "a", "e", "s", "\r">>,
     <<"U", "S", "\r">>}

-----------------------------------------------------------------------------
(* clean_data: "clean income"                                              *)

\* lines 95-96 without line 97
income_value_no_sentinel(x) ==
    LET stripped == replace(x, <<"$">>, <<>>)
    IN  IF ~contains(stripped, <<".">>) THEN stripped \o <<".", "0", "0">> ELSE stripped

\* lines 95-97 for one cell that is a str
income_value(x) ==
    LET stripped == replace(x, <<"$">>, <<>>)
        padded == IF ~contains(stripped, <<".">>) THEN stripped \o <<".", "0", "0">> ELSE stripped
    IN  IF padded = <<".", "0", "0">> THEN unknown ELSE padded

\* .str.replace leaves a None cell a NaN, and the lambda of line 96 raises
\* TypeError on it ('"." not in x' of a float)
clean_income(df) ==
    IF ~HasColumn(df, IncomeCol) THEN Raise("KeyError")
    ELSE LET col == Column(df, IncomeCol)
         IN  IF \E i \in 1..Len(col) : col[i] = NoneVal THEN Raise("TypeError")
             ELSE Ok(SetColumn(df, IncomeCol, [i \in 1..Len(col) |-> income_value(col[i])]))

-----------------------------------------------------------------------------
(* clean_data: "clean country"                                             *)

\* data.rename(columns={"Country\n": "Country", "Country\r\n": "Country"})
rename_country(df) ==
    [df EXCEPT !.columns = [j \in 1..Len(df.columns) |->
        IF df.columns[j] \in {CountryColLF, CountryColCRLF} THEN CountryCol
        ELSE df.columns[j]]]

\* lines 101 and 107 without line 108
country_value_one_map(x) ==
    LET a == replace(x, <<"\n">>, <<>>)
    IN  IF a \in country_usa_map THEN USA ELSE a

\* lines 101, 107, 108 for one cell that is a str
country_value(x) ==
    LET a == replace(x, <<"\n">>, <<>>)
        b == IF a \in country_usa_map THEN USA ELSE a
    IN  IF b \in country_usa_map2 THEN USA ELSE b

\* a None cell stays missing through .str.replace and .replace
clean_country(df) ==
    LET renamed == rename_country(df)
    IN  IF ~HasColumn(renamed, CountryCol) THEN Raise("KeyError")
        ELSE LET col == Column(renamed, CountryCol)
             IN  Ok(SetColumn(renamed, CountryCol,
                     [i \in 1..Len(col) |->
                         IF col[i] = NoneVal THEN NoneVal ELSE country_value(col[i])]))

-----------------------------------------------------------------------------
(* clean_data: "clean name"                                                *)

clean_name(df) ==
    IF ~HasColumn(df, NameCol) THEN Raise("KeyError")
    ELSE LET col == Column(df, NameCol)
         IN  Ok(SetColumn(df, NameCol,
                 [i \in 1..Len(col) |-> IF col[i] = NoneVal THEN NoneVal ELSE title(col[i])]))

-----------------------------------------------------------------------------
(* clean_data: "clean age"                                                 *)

age_value(x) == IF x = <<>> THEN unknown ELSE x

clean_age(df) ==
    IF ~HasColumn(df, AgeCol) THEN Raise("KeyError")
    ELSE LET col == Column(df, AgeCol)
         IN  Ok(SetColumn(df, AgeCol, [i \in 1..Len(col) |-> age_value(col[i])]))

-----------------------------------------------------------------------------
(* clean_data.assume_subdomains and "clean email"                          *)

RECURSIVE Ascending(_)
\* the members of a set of numbers, smallest first
Ascending(S) ==
    IF S = {} THEN <<>>
    ELSE LET m == CHOOSE x \in S : \A y \in S : x <= y
         IN  <<m>> \o Ascending(S \ {m})

\* value_counts().index[0]: the most frequent value, the one met first among
\* equally frequent ones
most_frequent(values) ==
    LET Count(v) == Cardinality({i \in 1..Len(values) : values[i] = v})
        First(v) == CHOOSE i \in 1..Len(values) :
                        values[i] = v /\ \A j \in 1..(i - 1) : values[j] # v
        best == CHOOSE i \in 1..Len(values) :
                    /\ First(values[i]) = i
                    /\ \A j \in 1..Len(values) :
                          \/ Count(values[j]) < Count(values[i])
                          \/ Count(values[j]) = Count(values[i]) /\ First(values[j]) >= i
    IN  values[best]

\* lines 66-67 for one (stripped) address: the text after the last "@", a
\* trailing "." dropped, split on "."
domain_labels_of(x) ==
    LET parts == split(x, "@")
        d == parts[Len(parts)]
    IN  IF ~endswith(d, <<".">>) THEN split(d, ".")
        ELSE split(SubSeq(d, 1, Len(d) - 1), ".")

\* the lambdas of lines 80-81 and 85
append_label(x, label) ==
    IF ~endswith(x, <<".">>) THEN x \o <<".">> \o label ELSE x \o label

\* the loop body with "emails_without_subdomain &" left out of rows_to_fill
fill_label_any_row(column, label, domain_and_subdomain) ==
    LET n == Len(column)
        domains_with_subdomain ==
            {i \in 1..n : /\ \E k \in 1..Len(domain_and_subdomain[i]) :
                                domain_and_subdomain[i][k] = label
                           /\ Len(domain_and_subdomain[i]) > 1}
        order == Ascending(domains_with_subdomain)
        candidates == [k \in 1..Len(order) |-> domain_and_subdomain[order[k]][2]]
        chosen == IF Len(candidates) > 0 THEN most_frequent(candidates) ELSE com
    IN  [i \in 1..n |->
            IF contains(column[i], label)
            THEN append_label(column[i], chosen) ELSE column[i]]

\* One pass of the body of "for label in domain_labels" (lines 73-85):
\* domain_and_subdomain and emails_without_subdomain are those computed before
\* the loop, column is the column as the earlier passes left it.
fill_label(column, label, domain_and_subdomain) ==
    LET n == Len(column)
        domains_with_subdomain ==
            {i \in 1..n : /\ \E k \in 1..Len(domain_and_subdomain[i]) :
                                domain_and_subdomain[i][k] = label
                           /\ Len(domain_and_subdomain[i]) > 1}
        order == Ascending(domains_with_subdomain)
        candidates == [k \in 1..Len(order) |-> domain_and_subdomain[order[k]][2]]
        chosen == IF Len(candidates) > 0 THEN most_frequent(candidates) ELSE com
    IN  [i \in 1..n |->
            IF Len(domain_and_subdomain[i]) = 1 /\ contains(column[i], label)
            THEN append_label(column[i], chosen) ELSE column[i]]

RECURSIVE fill_labels(_, _, _)
\* the loop of line 72 over the labels still to visit
fill_labels(column, labels, domain_and_subdomain) ==
    IF labels = <<>> THEN column
    ELSE fill_labels(fill_label(column, Head(labels), domain_and_subdomain),
                     Tail(labels), domain_and_subdomain)

\* assume_subdomains for a column of str: one pass of the loop for every row
\* whose domain is a single label, in row order
assume_subdomains(column) ==
    LET stripped == [i \in 1..Len(column) |-> strip(column[i])]
        domain_and_subdomain == [i \in 1..Len(column) |-> domain_labels_of(stripped[i])]
        without == Ascending({i \in 1..Len(column) : Len(domain_and_subdomain[i]) = 1})
        domain_labels == [k \in 1..Len(without) |-> domain_and_subdomain[without[k]][1]]
    IN  fill_labels(stripped, domain_labels, domain_and_subdomain)

\* line 114 for one cell that is a str
collapse_at(x) == replace(x, <<"@", "@">>, <<"@">>)

\* line 116 for one cell
email_sentinel(x) == IF x = <<".", "c", "o", "m">> THEN unknown ELSE x

\* lines 114-116; x.split of a missing cell raises AttributeError in the
\* lambda of line 67
clean_email(df) ==
    IF ~HasColumn(df, EmailCol) THEN Raise("KeyError")
    ELSE LET col == Column(df, EmailCol)
         IN  IF \E i \in 1..Len(col) : col[i] = NoneVal THEN Raise("AttributeError")
             ELSE LET collapsed == [i \in 1..Len(col) |-> collapse_at(col[i])]
                      filled == assume_subdomains(collapsed)
                  IN  Ok(SetColumn(df, EmailCol,
                          [i \in 1..Len(col) |-> email_sentinel(filled[i])]))

-----------------------------------------------------------------------------
(* clean_data.standardize_dates and "clean date"                           *)

DigitSeq == <<"0", "1", "2", "3", "4", "5", "6", "7", "8", "9">>

digit(c) == (CHOOSE i \in 1..Len(DigitSeq) : DigitSeq[i] = c) - 1

number(s) == IF Len(s) = 2 THEN 10 * digit(s[1]) + digit(s[2])
             ELSE 1000 * digit(s[1]) + 100 * digit(s[2]) + 10 * digit(s[3]) + digit(s[4])

two_digits(n) == <<DigitSeq[(n \div 10) + 1], DigitSeq[(n % 10) + 1]>>

days_in_month(y, m) ==
    IF m \in {4, 6, 9, 11} THEN 30
    ELSE IF m # 2 THEN 31
    ELSE IF (y % 4 = 0 /\ y % 100 # 0) \/ y % 400 = 0 THEN 29 ELSE 28

\* parser.parse(date, dayfirst=True).strftime('%Y-%m-%d') for the values the
\* model feeds it: "NN/NN/NNNN" with a first number of at most 31 and a year
\* of at least 1000 is resolved as dateutil resolves three numbers with the
\* year last (day first unless the second number cannot be a month), and a
\* date that does not exist raises ValueError; the empty string and a word
\* that names no date raise ParserError, a ValueError.
parse_date(s) ==
    IF /\ Len(s) = 10
       /\ s[3] = "/" /\ s[6] = "/"
       /\ \A i \in {1, 2, 4, 5, 7, 8, 9, 10} : s[i] \in Digits
    THEN LET a == number(SubSeq(s, 1, 2))
             b == number(SubSeq(s, 4, 5))
             y == number(SubSeq(s, 7, 10))
             day == IF a > 12 \/ b <= 12 THEN a ELSE b
             month == IF a > 12 \/ b <= 12 THEN b ELSE a
         IN  IF month \in 1..12 /\ day \in 1..days_in_month(y, month) /\ y >= 1
             THEN Ok(SubSeq(s, 7, 10) \o <<"-">> \o two_digits(month) \o <<"-">> \o two_digits(day))
             ELSE Raise("ValueError")
    ELSE Raise("ValueError")

\* the try/except of lines 47-51 for one cell; a missing cell raises TypeError
\* in parser.parse, which is caught as well
standardize_date(x) ==
    IF x = NoneVal THEN unknown
    ELSE IF parse_date(x).error = "none" THEN parse_date(x).value ELSE unknown

\* line 119 with the try/except of standardize_dates left out
clean_date_uncaught(df) ==
    IF ~HasColumn(df, DateCol) THEN Raise("KeyError")
    ELSE LET col == Column(df, DateCol)
         IN  IF \E i \in 1..Len(col) : col[i] = NoneVal THEN Raise("TypeError")
             ELSE IF \E i \in 1..Len(col) : parse_date(col[i]).error # "none"
             THEN Raise("ValueError")
             ELSE Ok(SetColumn(df, DateCol, [i \in 1..Len(col) |-> parse_date(col[i]).value]))

clean_date(df) ==
    IF ~HasColumn(df, DateCol) THEN Raise("KeyError")
    ELSE LET col == Column(df, DateCol)
         IN  Ok(SetColumn(df, DateCol, [i \in 1..Len(col) |-> standardize_date(col[i])]))

-----------------------------------------------------------------------------
(* load_processed_data: data.to_csv(csv_file, index=False)                 *)

\* csv quoting (QUOTE_MINIMAL): a field holding the delimiter, the quote
\* character or a line break is wrapped in quotes, its quotes doubled.  Whether
\* a lone "\r" counts as a line break depends on the Python version, so it is
\* an input of the operator.
csv_field(x, quote_cr) ==
    IF x = NoneVal THEN <<>>
    ELSE IF \E i \in 1..Len(x) : x[i] \in {",", "\"", "\n"} \/ (quote_cr /\ x[i] = "\r")
         THEN <<"\"">> \o replace(x, <<"\"">>, <<"\"", "\"">>) \o <<"\"">>
         ELSE x

csv_line(fields, quote_cr) ==
    join([j \in 1..Len(fields) |-> csv_field(fields[j], quote_cr)], <<",">>) \o <<"\n">>

\* the header line, then one line per row
to_csv(df, quote_cr) ==
    <<csv_line(df.columns, quote_cr)>>
        \o [i \in 1..Len(df.rows) |-> csv_line(df.rows[i], quote_cr)]

-----------------------------------------------------------------------------
(* The run: __main__ (lines 147-153) and the statements of clean_data      *)

EmptyFrame == [columns |-> <<>>, rows |-> <<>>]

Abort(e) ==
    /\ pc' = "aborted"
    /\ error' = e

\* extract_data (lines 18-30): download_fileobj raises when the key is absent
\* or the transport fails; otherwise the object's lines are returned
ExtractData ==
    /\ pc = "extract_data"
    /\ \E transport_ok \in BOOLEAN :
          IF ~source_bucket.exists
          THEN Abort("ClientError") /\ UNCHANGED <<raw_data, steps>>
          ELSE IF ~transport_ok
          THEN Abort("ConnectionError") /\ UNCHANGED <<raw_data, steps>>
          ELSE /\ raw_data' = source_bucket.lines
               /\ pc' = "split"
               /\ steps' = Append(steps, "fetch")
               /\ UNCHANGED error
    /\ UNCHANGED <<source_bucket, data_rows, data_income_extracted, data, dest_bucket>>

\* line 90
SplitRows ==
    /\ pc = "split"
    /\ data_rows' = [i \in 1..Len(raw_data) |-> split(raw_data[i], ",")]
    /\ pc' = "extract_income"
    /\ steps' = Append(steps, "parse")
    /\ UNCHANGED <<source_bucket, raw_data, data_income_extracted, data, dest_bucket, error>>

\* line 91: the copy is shallow, so the rows of line 90 are the rows repaired
ExtractIncome ==
    /\ pc = "extract_income"
    /\ LET r == extract_income(data_rows)
       IN  IF r.error # "none"
           THEN Abort(r.error) /\ UNCHANGED <<data_rows, data_income_extracted, steps>>
           ELSE /\ data_rows' = r.value
                /\ data_income_extracted' = r.value
                /\ pc' = "DataFrame"
                /\ steps' = Append(steps, "repair")
                /\ UNCHANGED error
    /\ UNCHANGED <<source_bucket, raw_data, data, dest_bucket>>

\* One statement group of clean_data that rebinds data: it either raises or
\* leaves the new frame and moves on.
CleanStep(at, result, next, done) ==
    /\ pc = at
    /\ IF result.error # "none"
       THEN Abort(result.error) /\ UNCHANGED <<data, steps>>
       ELSE /\ data' = result.value
            /\ pc' = next
            /\ steps' = Append(steps, done)
            /\ UNCHANGED error
    /\ UNCHANGED <<source_bucket, raw_data, data_rows, data_income_extracted, dest_bucket>>

\* line 92
BuildFrame == CleanStep("DataFrame", DataFrame(data_income_extracted), "income", "frame")

\* lines 95-97
CleanIncome == CleanStep("income", clean_income(data), "country", "Income")

\* lines 100-108
CleanCountry == CleanStep("country", clean_country(data), "name", "Country")

\* line 111
CleanName == CleanStep("name", clean_name(data), "email", "Name")

\* lines 114-116
CleanEmail == CleanStep("email", clean_email(data), "date", "Email")

\* line 119
CleanDate == CleanStep("date", clean_date(data), "age", "Date of Birth")

\* line 122, and the return of line 124
CleanAge == CleanStep("age", clean_age(data), "load_processed_data", "Age")

\* load_processed_data (lines 137-144): upload_fileobj either stores the csv
\* text or raises and stores nothing
LoadProcessedData ==
    /\ pc = "load_processed_data"
    /\ \E transport_ok \in BOOLEAN, quote_cr \in BOOLEAN :
          IF ~transport_ok
          THEN Abort("ConnectionError") /\ UNCHANGED <<dest_bucket, steps>>
          ELSE /\ dest_bucket' = Append(dest_bucket, to_csv(data, quote_cr))
               /\ pc' = "done"
               /\ steps' = Append(steps, "store")
               /\ UNCHANGED error
    /\ UNCHANGED <<source_bucket, raw_data, data_rows, data_income_extracted, data>>

Next ==
    \/ ExtractData
    \/ SplitRows
    \/ ExtractIncome
    \/ BuildFrame
    \/ CleanIncome
    \/ CleanCountry
    \/ CleanName
    \/ CleanEmail
    \/ CleanDate
    \/ CleanAge
    \/ LoadProcessedData

\* the state of a run before its first statement, for a given source object
Start(object) ==
    /\ pc = "extract_data"
    /\ source_bucket = object
    /\ raw_data = <<>>
    /\ data_rows = <<>>
    /\ data_income_extracted = <<>>
    /\ data = EmptyFrame
    /\ dest_bucket = <<>>
    /\ error = "none"
    /\ steps = <<>>

-----------------------------------------------------------------------------
(* The source objects the run is checked on                                *)

MaxFields == 8

MaxRepairRows == 1

MaxIncomeLen == 2

MaxColumnRows == 1

MaxEmailRows == 3

MaxRows == 2

LF == <<"\n">>

CRLF == <<"\r", "\n">>

\* a line of the object: the fields joined by commas, then its line ending
Line(fields, eol) == join(fields, <<",">>) \o eol

\* The lines "for line in file" yields for an object written with one line
\* ending throughout: every line ends with it, except that the last line of
\* an object that does not end with "\n" lacks the "\n".
Object(header, eol, body, complete) ==
    LET all == <<header>> \o body
        last_eol == IF complete THEN eol ELSE SubSeq(eol, 1, Len(eol) - 1)
    IN  [exists |-> TRUE,
         lines |-> [i \in 1..Len(all) |->
                      Line(all[i], IF i = Len(all) THEN last_eol ELSE eol)]]

Missing == [exists |-> FALSE, lines |-> <<>>]

\* sequences of 1 to n members of S
Tables(S, n) == UNION {[1..k -> S] : k \in 1..n}

IdCol == <<"I", "d">>

OtherCol == <<"S", "a", "l", "a", "r", "y">>

Header6 == <<NameCol, EmailCol, DateCol, AgeCol, IncomeCol, CountryCol>>

Header7 == <<NameCol, EmailCol, DateCol, IdCol, IncomeCol, AgeCol, CountryCol>>

GoodName == <<"a", "n", "n", " ", "l", "e", "e">>

GoodEmail == <<"a", "@", "b", ".", "c">>

GoodDate == <<"0", "4", "/", "0", "3", "/", "2", "0", "2", "0">>

GoodAge == <<"3">>

GoodIncome == <<"$", "1">>

GoodCountry == <<"U", "S">>

GoodRow == <<GoodName, GoodEmail, GoodDate, GoodAge, GoodIncome, GoodCountry>>

\* Rows for the field repair pass: the first four fields of a good row (or
\* fewer), then up to MaxFields - 4 more; the field at position 4 is a "$"
\* amount or a word, the later ones a number or a word.
RepairTails ==
    UNION { {tail \in [1..k -> {GoodIncome, <<"2", "0">>, GoodCountry}] :
                /\ k > 0 => tail[1] # <<"2", "0">>
                /\ \A j \in 2..k : tail[j] # GoodIncome} : k \in 0..(MaxFields - 4) }

RepairRows ==
    {SubSeq(GoodRow, 1, k) : k \in 1..3} \cup {SubSeq(GoodRow, 1, 4) \o tail : tail \in RepairTails}

RepairObjects ==
    {Object(header, LF, body, TRUE) :
        header \in {Header6, Header7}, body \in Tables(RepairRows, MaxRepairRows)}

\* Income cells: every string of "$", "1" and "." up to MaxIncomeLen long
IncomeValues == UNION {[1..k -> {"$", "1", "."}] : k \in 0..MaxIncomeLen}

\* Country cells before the line ending: the aliases, the canonical name,
\* another country, nothing
CountryValues == country_usa_map \cup {USA, <<"P", "o", "l", "a", "n", "d">>, <<>>}

AgeValues == {<<>>, GoodAge}

\* Rows for the column normalizers: a good row with one cell replaced
ColumnRows ==
    {[GoodRow EXCEPT ![5] = v] : v \in IncomeValues}
        \cup {[GoodRow EXCEPT ![6] = v] : v \in CountryValues}
        \cup {[GoodRow EXCEPT ![4] = v] : v \in AgeValues}

ColumnObjects ==
    {Object(Header6, eol, body, complete) :
        eol \in {LF, CRLF}, body \in Tables(ColumnRows, MaxColumnRows),
        complete \in BOOLEAN}

EmailValues ==
    {<<"a", "@", "f", "o", "o", ".", "c", "o", "m">>,
     <<"b", "@", "m", "a", "i", "l", ".", "f", "o", "o", ".", "c", "o", "m">>,
     <<"a", "@", "f", "o", "o">>,
     <<"b", "@", "f", "o", "o">>,
     <<"c", "@", "f", "o", "o", ".">>,
     <<>>,
     <<"a", "@", "@", "f", "o", "o", ".", "c", "o", "m">>,
     <<"a", "@", "@", "@", "f", "o", "o", ".", "c", "o", "m">>,
     <<"a", "@", "f", "o">>,
     <<"b", "@", "f", "o", "o", ".", "o", "r", "g">>,
     <<"b", "@", "f", "o", "o", ".", "c", "o", "m">>}

EmailObjects ==
    {Object(Header6, LF, body, TRUE) :
        body \in Tables({[GoodRow EXCEPT ![2] = v] : v \in EmailValues}, MaxEmailRows)}

\* Headers of a whole run: the six expected columns, or one of them under
\* another name
PipelineHeaders ==
    {Header6} \cup {[Header6 EXCEPT ![j] = OtherCol] : j \in 1..6}

\* Rows of a whole run: a good row, rows with a Date of Birth that is no
\* date, a row of three fields, a row of five fields, a row with a split income
PipelineRows ==
    {GoodRow,
      [GoodRow EXCEPT ![3] = <<"a", "b", "c">>],
      [GoodRow EXCEPT ![3] = <<>>],
      [GoodRow EXCEPT ![3] = <<"3", "1", "/", "0", "2", "/", "2", "0", "2", "0">>],
      [GoodRow EXCEPT ![3] = <<"0", "4", "/", "1", "3", "/", "2", "0", "2", "0">>],
      SubSeq(GoodRow, 1, 3),
      <<GoodName, GoodEmail, GoodDate, GoodAge, <<"n", "/", "a">>>>,
      <<GoodName, GoodEmail, GoodDate, GoodAge, GoodIncome, <<"2", "0", "0">>, GoodCountry>>}

PipelineObjects ==
    {Missing, [exists |-> TRUE, lines |-> <<>>]}
        \cup {Object(header, eol, body, complete) :
                 header \in PipelineHeaders, eol \in {LF, CRLF},
                 body \in {<<>>} \cup Tables(PipelineRows, MaxRows),
                 complete \in BOOLEAN}

Init == \E object \in PipelineObjects : Start(object)

InitRepair == \E object \in RepairObjects : Start(object)

InitColumns == \E object \in ColumnObjects : Start(object)

InitEmail == \E object \in EmailObjects : Start(object)

Spec == Init /\ [][Next]_vars

SpecRepair == InitRepair /\ [][Next]_vars

SpecColumns == InitColumns /\ [][Next]_vars

SpecEmail == InitEmail /\ [][Next]_vars

-----------------------------------------------------------------------------
(* What the claims speak of                                                *)

\* the rows as line 90 split them, recomputed from the lines __main__ holds
ParsedRow(i) == split(raw_data[i], ",")

\* the field repair pass has returned
Repaired == Len(steps) >= 3

\* the row's field 4 without "$" and field 5, both trimmed, are numeric
\* (fields counted from 0 as in the source)
NumericPattern(row) ==
    /\ Len(row) >= 6
    /\ isnumeric(strip(SelectSeq(row[5], LAMBDA c : c # "$")))
    /\ isnumeric(strip(row[6]))

\* the row has k fields more than the header because its income was split
\* into k + 1 numeric tokens at positions 4 .. 4 + k
SplitIncome(row, header, k) ==
    /\ k >= 1
    /\ Len(row) = Len(header) + k
    /\ isnumeric(strip(SelectSeq(row[5], LAMBDA c : c # "$")))
    /\ \A j \in 6..(5 + k) : isnumeric(strip(row[j]))

\* C1 as stated: after the field repair pass every data row that had the
\* header's field count, or more fields because its income was split by
\* embedded commas, has the header row's field count.
C1_AllRowsMatchHeader ==
    Repaired =>
        \A i \in 2..Len(raw_data) :
            (\/ Len(ParsedRow(i)) = Len(ParsedRow(1))
             \/ \E k \in 1..Len(ParsedRow(i)) : SplitIncome(ParsedRow(i), ParsedRow(1), k))
            => Len(data_income_extracted[i]) = Len(data_income_extracted[1])

\* C1 amended: after the field repair pass has returned, every data row that
\* had the header's field count and did not match the numeric pattern, or had
\* one field more than the header and matched it (one split), has the header
\* row's field count.
C1_SingleSplitRowsMatchHeader ==
    Repaired =>
        \A i \in 2..Len(raw_data) :
            (\/ Len(ParsedRow(i)) = Len(ParsedRow(1)) /\ ~NumericPattern(ParsedRow(i))
             \/ Len(ParsedRow(i)) = Len(ParsedRow(1)) + 1 /\ NumericPattern(ParsedRow(i)))
            => Len(data_income_extracted[i]) = Len(data_income_extracted[1])

\* a run in which the pass joined a row that had one field too many
C1_Witness ==
    /\ Repaired
    /\ \E i \in 2..Len(raw_data) :
          /\ Len(ParsedRow(i)) = Len(ParsedRow(1)) + 1
          /\ NumericPattern(ParsedRow(i))
          /\ Len(data_income_extracted[i]) = Len(ParsedRow(1))

\* C2: the field repair pass returns on every table whose rows have fields 4
\* and 5 and, where they match the numeric pattern, a field 6; and when it
\* returns, a row that matched the pattern has fields 0-3 as before, field 4
\* the old fields 4 and 5 joined, the fields from 6 on moved one place left
\* and one field less, and a row that did not match is as it was.
C2_RepairJoinsAndShifts ==
    /\ (pc = "aborted" /\ Len(steps) = 2)
       => \E i \in 1..Len(raw_data) :
             \/ Len(ParsedRow(i)) < 6
             \/ Len(ParsedRow(i)) = 6 /\ NumericPattern(ParsedRow(i))
    /\ Repaired =>
          \A i \in 1..Len(raw_data) :
              LET old == ParsedRow(i)
                  new == data_income_extracted[i]
              IN  IF NumericPattern(old)
                  THEN /\ Len(new) = Len(old) - 1
                       /\ \A j \in 1..4 : new[j] = old[j]
                       /\ new[5] = old[5] \o old[6]
                       /\ \A j \in 6..Len(new) : new[j] = old[j + 1]
                  ELSE new = old

\* a run in which the pass joined the fields "$1" and "20" of a row
C2_Witness ==
    /\ Repaired
    /\ \E i \in 1..Len(raw_data) :
          /\ NumericPattern(ParsedRow(i))
          /\ ParsedRow(i)[5] = <<"$", "1">>
          /\ data_income_extracted[i][5] = <<"$", "1", "2", "0">>

\* C3: the field repair pass never ends in an index-out-of-range failure, and
\* it leaves every row of fewer than 7 fields as it was.
C3_ShortRowsGuarded ==
    /\ ~(pc = "aborted" /\ Len(steps) = 2 /\ error = "IndexError")
    /\ Repaired =>
          \A i \in 1..Len(raw_data) :
              Len(ParsedRow(i)) < 7 => data_income_extracted[i] = ParsedRow(i)

\* the cell of data row i under column name as the DataFrame was built from
\* the repaired rows, before any normalizer ran (the name as data has it now)
OriginalCell(i, name) ==
    LET j == ColumnIndex(data, name)
        row == data_income_extracted[i + 1]
    IN  IF j <= Len(row) THEN row[j] ELSE NoneVal

IncomeDone == Len(steps) >= 5

CountryDone == Len(steps) >= 6

EmailDone == Len(steps) >= 8

DateDone == Len(steps) >= 9

AgeDone == Len(steps) >= 10

\* an Income value with a "$" prefix and no decimal point
DollarNoPoint(v) == v # NoneVal /\ v # <<>> /\ v[1] = "$" /\ \A k \in 1..Len(v) : v[k] # "."

WithoutDollar(v) == SelectSeq(v, LAMBDA c : c # "$")

\* C4: running the Income, Country and Age normalizers again on the table
\* they have cleaned raises nothing and changes nothing.
C4_RerunIsNoOp ==
    AgeDone =>
        /\ clean_income(data) = Ok(data)
        /\ clean_country(data) = Ok(data)
        /\ clean_age(data) = Ok(data)

\* C5 as stated: every Income value with a "$" prefix and no decimal point
\* comes out as the value without "$" followed by ".00", "$" alone included.
C5_DollarBecomesPointZeroZero ==
    IncomeDone =>
        \A i \in 1..Len(data.rows) :
            DollarNoPoint(OriginalCell(i, IncomeCol))
            => Column(data, IncomeCol)[i] = WithoutDollar(OriginalCell(i, IncomeCol)) \o <<".", "0", "0">>

\* C5 amended: every Income value with a "$" prefix and no decimal point comes
\* out as the value with every "$" removed followed by ".00", except that a
\* value made of "$" only comes out as "unknown".
C5_DollarBecomesPointZeroZeroOrUnknown ==
    IncomeDone =>
        \A i \in 1..Len(data.rows) :
            DollarNoPoint(OriginalCell(i, IncomeCol))
            => Column(data, IncomeCol)[i] =
                  IF WithoutDollar(OriginalCell(i, IncomeCol)) = <<>> THEN <<"u", "n", "k", "n", "o", "w", "n">>
                  ELSE WithoutDollar(OriginalCell(i, IncomeCol)) \o <<".", "0", "0">>

\* a run in which "$1" came out as "1.00"
C5_Witness ==
    /\ IncomeDone
    /\ \E i \in 1..Len(data.rows) :
          /\ OriginalCell(i, IncomeCol) = <<"$", "1">>
          /\ Column(data, IncomeCol)[i] = <<"1", ".", "0", "0">>

\* the USA aliases C8 lists
UsaAliases ==
    {<<"U", "n", "i", "t", "e", "d", " ", "S", "t", "a", "t", "e", "s">>,
     <<"u", "s">>,
     <<" ", "U", ".", "S", ".">>,
     <<"u", "s", "a">>,
     <<"U", "n", "i", "t", "e", "d", " ", "S", "t", "a", "t", "e", "s", " ", "o", "f", " ", "A", "m", "e", "r", "i", "c", "a">>,
     <<"U", "n", "i", "t", "e", "d", " ", "s", "t", "a", "t", "e", "s">>,
     <<"U", "n", "i", "t", "e", "d", " ", "S", "t", "a", "e", "s">>,
     <<"U", "S">>}

\* an alias with or without a trailing carriage return and/or newline
AliasForms ==
    {a \o e : a \in UsaAliases, e \in {<<>>, <<"\r">>, <<"\n">>, <<"\r", "\n">>, <<"\n", "\r">>}}

\* C8 as stated: a Country value that is an alias, with or without a trailing
\* carriage return and/or newline, comes out as "USA"; a value that matches
\* no alias and holds no newline comes out as it was.
C8_AliasesBecomeUSA ==
    CountryDone =>
        \A i \in 1..Len(data.rows) :
            LET v == OriginalCell(i, CountryCol)
                out == Column(data, CountryCol)[i]
            IN  /\ v \in AliasForms => out = <<"U", "S", "A">>
                /\ (v # NoneVal /\ v \notin AliasForms /\ \A k \in 1..Len(v) : v[k] # "\n")
                   => out = v

\* C8 amended: as stated, except that "USA" followed by a carriage return,
\* which is no alias, comes out as "USA" too.
C8_AliasesAndUSABecomeUSA ==
    CountryDone =>
        \A i \in 1..Len(data.rows) :
            LET v == OriginalCell(i, CountryCol)
                out == Column(data, CountryCol)[i]
            IN  /\ (v \in AliasForms \/ v = <<"U", "S", "A", "\r">>) => out = <<"U", "S", "A">>
                /\ (/\ v # NoneVal /\ v \notin AliasForms /\ v # <<"U", "S", "A", "\r">>
                    /\ \A k \in 1..Len(v) : v[k] # "\n")
                   => out = v

\* a run in which an alias followed by a carriage return came out as "USA"
C8_Witness ==
    /\ CountryDone
    /\ \E i \in 1..Len(data.rows) :
          /\ OriginalCell(i, CountryCol) \in {a \o <<"\r">> : a \in UsaAliases}
          /\ Column(data, CountryCol)[i] = <<"U", "S", "A">>

\* the order C9 gives the steps (building the table lies between the field
\* repair and the first normalizer)
StepOrder ==
    <<"fetch", "parse", "repair", "frame", "Income", "Country", "Name", "Email",
      "Date of Birth", "Age", "store">>

\* the header of the fetched object lacks one of the six expected columns
\* (a last column "Country" may carry the line ending "\n" or "\r\n")
ColumnMissing ==
    /\ raw_data # <<>>
    /\ \E name \in {NameCol, EmailCol, DateCol, AgeCol, IncomeCol, CountryCol} :
          \A j \in 1..Len(ParsedRow(1)) :
              /\ ParsedRow(1)[j] # name
              /\ name = CountryCol => ParsedRow(1)[j] \notin {name \o LF, name \o CRLF}

\* Date of Birth values that are no date
MalformedDates == {<<"a", "b", "c">>, <<>>, <<"3", "1", "/", "0", "2", "/", "2", "0", "2", "0">>}

\* C9: the steps of a run happen in the fixed order; an object is stored at
\* most once and only after all six normalizers; a run whose fetch failed or
\* whose header lacks an expected column ends aborted with nothing stored; a
\* Date of Birth that is no date does not abort the run and becomes "unknown".
C9_PipelineOrder ==
    /\ Len(steps) <= Len(StepOrder)
    /\ \A k \in 1..Len(steps) : steps[k] = StepOrder[k]
    /\ Len(dest_bucket) <= 1
    /\ dest_bucket # <<>> => (Len(steps) = Len(StepOrder) /\ pc = "done")
    /\ pc = "aborted" => dest_bucket = <<>>
    /\ (pc = "aborted" /\ steps = <<>>) => raw_data = <<>>
    /\ ~source_bucket.exists => pc \in {"extract_data", "aborted"}
    /\ ColumnMissing => (pc \notin {"load_processed_data", "done"} /\ dest_bucket = <<>>)
    /\ (pc = "aborted" /\ Len(steps) = 8) => (error = "KeyError" /\ ColumnMissing)
    /\ DateDone =>
          \A i \in 1..Len(data.rows) :
              OriginalCell(i, DateCol) \in MalformedDates
              => Column(data, DateCol)[i] = <<"u", "n", "k", "n", "o", "w", "n">>

\* a run that stored its object although a Date of Birth was no date
C9_Witness ==
    /\ pc = "done"
    /\ Len(dest_bucket) = 1
    /\ \E i \in 1..Len(data.rows) :
          /\ OriginalCell(i, DateCol) \in MalformedDates
          /\ Column(data, DateCol)[i] = <<"u", "n", "k", "n", "o", "w", "n">>

\* the address the Email normalizer's inference pass is given: doubled "@"
\* collapsed once, surrounding whitespace removed
GivenAddress(i) == strip(collapse_at(OriginalCell(i, EmailCol)))

\* the labels of an address's domain: the text after the last "@", a trailing
\* "." removed, cut at every "."
DomainLabels(x) ==
    LET at == {k \in 1..Len(x) : x[k] = "@"}
        from == IF at = {} THEN 1 ELSE MaxOf(at) + 1
        d == SubSeq(x, from, Len(x))
        core == IF d # <<>> /\ d[Len(d)] = "." THEN SubSeq(d, 1, Len(d) - 1) ELSE d
    IN  split(core, ".")

\* the text of an address up to and including its last "@"
LocalPart(x) ==
    LET at == {k \in 1..Len(x) : x[k] = "@"}
    IN  IF at = {} THEN <<>> ELSE SubSeq(x, 1, MaxOf(at))

\* l is one of the labels, and none of them occurs more often
MostFrequentIn(l, labels) ==
    /\ \E k \in 1..Len(labels) : labels[k] = l
    /\ \A m \in 1..Len(labels) :
          Cardinality({k \in 1..Len(labels) : labels[k] = labels[m]})
              <= Cardinality({k \in 1..Len(labels) : labels[k] = l})

\* C6 as stated: with the Email column "a@foo.com", "b@mail.foo.com" the first address
\* becomes "a@mail.foo.com"; in general an address whose domain is one label
\* plus a top-level suffix gets, in front of that label, the subdomain label
\* most frequent among the rows with that base domain and a subdomain.
C6_SubdomainInserted ==
    EmailDone =>
        /\ (Len(data.rows) = 2
             /\ OriginalCell(1, EmailCol) = <<"a", "@", "f", "o", "o", ".", "c", "o", "m">>
             /\ OriginalCell(2, EmailCol) = <<"b", "@", "m", "a", "i", "l", ".", "f", "o", "o", ".", "c", "o", "m">>)
            => Column(data, EmailCol)[1] = <<"a", "@", "m", "a", "i", "l", ".", "f", "o", "o", ".", "c", "o", "m">>
        /\ \A i \in 1..Len(data.rows) :
              LET x == GivenAddress(i)
                  base == DomainLabels(x)
                  with == Ascending({j \in 1..Len(data.rows) :
                              /\ Len(DomainLabels(GivenAddress(j))) = 3
                              /\ Tail(DomainLabels(GivenAddress(j))) = base})
                  subs == [k \in 1..Len(with) |-> DomainLabels(GivenAddress(with[k]))[1]]
              IN  (Len(base) = 2 /\ Len(with) > 0)
                  => \E l \in {subs[k] : k \in 1..Len(subs)} :
                        /\ MostFrequentIn(l, subs)
                        /\ Column(data, EmailCol)[i] =
                              LocalPart(x) \o l \o <<".">> \o join(base, <<".">>)

\* C6 amended: with the Email column "a@foo", "b@foo.com" the first address
\* becomes "a@foo.com" and the second stays; in general the inference leaves
\* an address whose domain holds a "." as it was given, and only ever appends
\* to an address whose domain is a single label (the given address is a
\* proper prefix of the result, or the result is "unknown").
C6_LabelAppendedToSingleLabelDomain ==
    EmailDone =>
        /\ (Len(data.rows) = 2
             /\ OriginalCell(1, EmailCol) = <<"a", "@", "f", "o", "o">>
             /\ OriginalCell(2, EmailCol) = <<"b", "@", "f", "o", "o", ".", "c", "o", "m">>)
            => Column(data, EmailCol) = <<<<"a", "@", "f", "o", "o", ".", "c", "o", "m">>, <<"b", "@", "f", "o", "o", ".", "c", "o", "m">>>>
        /\ \A i \in 1..Len(data.rows) :
              LET x == GivenAddress(i)
                  out == Column(data, EmailCol)[i]
              IN  IF Len(DomainLabels(x)) > 1 THEN out = x
                  ELSE \/ out = <<"u", "n", "k", "n", "o", "w", "n">>
                       \/ Len(out) > Len(x) /\ SubSeq(out, 1, Len(x)) = x

\* a run in which "a@foo" beside "b@foo.com" came out as "a@foo.com"
C6_Witness ==
    /\ EmailDone
    /\ Len(data.rows) = 2
    /\ OriginalCell(1, EmailCol) = <<"a", "@", "f", "o", "o">>
    /\ OriginalCell(2, EmailCol) = <<"b", "@", "f", "o", "o", ".", "c", "o", "m">>
    /\ Column(data, EmailCol)[1] = <<"a", "@", "f", "o", "o", ".", "c", "o", "m">>

\* C7: an Email value that holds a doubled "@" comes out with no doubled "@"
C7_NoDoubledAt ==
    EmailDone =>
        \A i \in 1..Len(data.rows) :
            contains(OriginalCell(i, EmailCol), <<"@", "@">>)
            => ~contains(Column(data, EmailCol)[i], <<"@", "@">>)

\* the candidate labels for a base label: the second label of every row whose
\* domain has more than one label, one of them the base label
Candidates(base) ==
    LET with == Ascending({j \in 1..Len(data.rows) :
                   /\ Len(DomainLabels(GivenAddress(j))) > 1
                   /\ \E k \in 1..Len(DomainLabels(GivenAddress(j))) :
                         DomainLabels(GivenAddress(j))[k] = base})
    IN  [k \in 1..Len(with) |-> DomainLabels(GivenAddress(with[k]))[2]]

\* C10: every address whose domain is a single label comes out with exactly
\* one label appended ("." before it unless the address ends with "."): the
\* most frequent candidate for its base label, or "com" when there is none;
\* so an empty address comes out as "unknown".
C10_OneLabelAppended ==
    EmailDone =>
        \A i \in 1..Len(data.rows) :
            LET x == GivenAddress(i)
                out == Column(data, EmailCol)[i]
                cands == Candidates(DomainLabels(x)[1])
                dot == IF x # <<>> /\ x[Len(x)] = "." THEN <<>> ELSE <<".">>
            IN  Len(DomainLabels(x)) = 1
                => /\ \E l \in {cands[k] : k \in 1..Len(cands)} \cup {<<"c", "o", "m">>} :
                        /\ IF Len(cands) > 0 THEN MostFrequentIn(l, cands) ELSE l = <<"c", "o", "m">>
                        /\ out = IF x \o dot \o l = <<".", "c", "o", "m">> THEN <<"u", "n", "k", "n", "o", "w", "n">>
                                 ELSE x \o dot \o l
                   /\ x = <<>> => out = <<"u", "n", "k", "n", "o", "w", "n">>

====
